---- MODULE Spec2Model ----
(***************************************************************************)
(* Model of the double-buffered event collection `Events<E>` of            *)
(* crates/bevy_ecs/src/event/collections.rs together with the cursors      *)
(* that read it.                                                           *)
(*                                                                         *)
(* The buffer is the three fields of `Events<E>`.  Every method is a pure  *)
(* operator from a buffer value (a record with the three fields) to the    *)
(* buffer it leaves and the value it returns; every action of the state    *)
(* machine applies one method to the current buffer.  `EventId::caller`    *)
(* (a source location kept for diagnostics) carries no behaviour and is    *)
(* left out of the records.                                                *)
(*                                                                         *)
(* History variables (written, delivered, reads, cleared) record what the   *)
(* program did so that properties over whole runs can be stated; no        *)
(* action's guard or effect on the program state reads them.               *)
(*                                                                         *)
(* event_count is a usize; every run of the model stays at MaxEvents or    *)
(* below, far from the 2^64 writes at which `event_count += 1` overflows.  *)
(***************************************************************************)
EXTENDS Integers, Sequences, FiniteSets, TLC

\* ------------------------------------------------------------------ bounds
\* Events written in one run (guards of Write / WriteBatch).
MaxEvents == 3
\* Longest batch handed to write_batch.
MaxBatch == 2

Payloads == {"a", "b"}
\* the readers of the buffer in Spec; each may obtain one cursor
Cursors == {1}
Batches == UNION {[1..n -> Payloads] : n \in 0..MaxBatch}

VARIABLES
    events_a,       \* Events::events_a : EventSequence (older generation)
    events_b,       \* Events::events_b : EventSequence (newer generation)
    event_count,    \* Events::event_count
    cursors,        \* per reader: its EventCursor, once obtained
    written,        \* history: every event ever written, with its age in rotations
    delivered,      \* history: per cursor, every record its reads have yielded
    reads,          \* history: per cursor, bookkeeping about its reads
    cleared         \* history: clear() or drain() has been called

vars == <<events_a, events_b, event_count, cursors, written, delivered, reads,
          cleared>>

\* ------------------------------------------------------------ plain helpers
None == [some |-> FALSE]
Some(x) == [some |-> TRUE, value |-> x]

Min(a, b) == IF a <= b THEN a ELSE b
Max(a, b) == IF a >= b THEN a ELSE b

\* usize::saturating_sub
saturating_sub(a, b) == IF a >= b THEN a - b ELSE 0

\* Faulty variant of get: an index past the end gives the last element.
get_clamped(seq, index) ==
    IF seq = <<>> THEN None
    ELSE IF index < Len(seq) THEN Some(seq[index + 1]) ELSE Some(seq[Len(seq)])

\* <[T]>::get(index): the element at a 0-based index, if there is one
get(seq, index) == IF index < Len(seq) THEN Some(seq[index + 1]) ELSE None

\* Iterator::map over a sequence
Map(seq, F(_)) == [i \in 1..Len(seq) |-> F(seq[i])]

\* --------------------------------------------------------------- the types
\* EventId { id, .. }
EventId(n) == [id |-> n]
\* EventInstance { event_id, event }
EventInstance(n, e) == [event_id |-> EventId(n), event |-> e]
\* EventSequence { events, start_event_count }
EventSequence(evs, start) == [events |-> evs, start_event_count |-> start]
\* impl Default for EventSequence
EventSequence_default == EventSequence(<<>>, 0)
\* Events { events_a, events_b, event_count }
Events(a, b, n) == [events_a |-> a, events_b |-> b, event_count |-> n]
\* impl Default for Events
Events_default == Events(EventSequence_default, EventSequence_default, 0)
\* EventCursor { last_event_count, .. }
EventCursor(n) == [last_event_count |-> n]

\* the buffer of the current state, as one value
self == Events(events_a, events_b, event_count)

\* ------------------------------------------------------- methods of Events
\* Faulty variant of oldest_event_count: the newer generation's start.
oldest_of_newer(s) == s.events_b.start_event_count

\* Events::oldest_event_count
oldest_event_count(s) == s.events_a.start_event_count

\* Faulty variant of write_with_caller: event_count is not incremented.
write_without_increment(s, event) ==
    LET event_id == EventId(s.event_count)
        event_instance == [event_id |-> event_id, event |-> event]
    IN  [self |-> Events(s.events_a,
                         EventSequence(Append(s.events_b.events, event_instance),
                                       s.events_b.start_event_count),
                         s.event_count),
         result |-> event_id]

\* Faulty variant of write_with_caller: the record is pushed on events_a.
write_to_older(s, event) ==
    LET event_id == EventId(s.event_count)
        event_instance == [event_id |-> event_id, event |-> event]
    IN  [self |-> Events(EventSequence(Append(s.events_a.events, event_instance),
                                       s.events_a.start_event_count),
                         s.events_b,
                         s.event_count + 1),
         result |-> event_id]

\* Faulty variant of write_with_caller: the id is taken after the increment.
write_id_after_increment(s, event) ==
    LET event_id == EventId(s.event_count + 1)
        event_instance == [event_id |-> event_id, event |-> event]
    IN  [self |-> Events(s.events_a,
                         EventSequence(Append(s.events_b.events, event_instance),
                                       s.events_b.start_event_count),
                         s.event_count + 1),
         result |-> event_id]

\* Events::write_with_caller: the id is event_count, the record is pushed on
\* events_b, event_count grows by one, the id is returned.
write_with_caller(s, event) ==
    LET event_id == EventId(s.event_count)
        event_instance == [event_id |-> event_id, event |-> event]
    IN  [self |-> Events(s.events_a,
                         EventSequence(Append(s.events_b.events, event_instance),
                                       s.events_b.start_event_count),
                         s.event_count + 1),
         result |-> event_id]

\* Events::write
write(s, event) == write_with_caller(s, event)

\* Faulty variant of extend: the local counter is not incremented, so every
\* record of the batch gets the same id.
extend_same_id(s, iter) ==
    LET old_count == s.event_count
        events == [i \in 1..Len(iter) |-> EventInstance(old_count, iter[i])]
        new_count == old_count + Len(iter)
    IN  Events(s.events_a,
               EventSequence(s.events_b.events \o events, s.events_b.start_event_count),
               new_count)

\* Faulty variant of extend: the local counter is not stored back.
extend_without_store(s, iter) ==
    LET old_count == s.event_count
        events == [i \in 1..Len(iter) |-> EventInstance(old_count + (i - 1), iter[i])]
    IN  Events(s.events_a,
               EventSequence(s.events_b.events \o events, s.events_b.start_event_count),
               old_count)

\* impl Extend for Events: a local counter numbers the records, events_b is
\* extended by them, the counter is stored back.
extend(s, iter) ==
    LET old_count == s.event_count
        events == [i \in 1..Len(iter) |-> EventInstance(old_count + (i - 1), iter[i])]
        new_count == old_count + Len(iter)
    IN  Events(s.events_a,
               EventSequence(s.events_b.events \o events, s.events_b.start_event_count),
               new_count)

\* Events::write_batch: the ticket holds the counts before and after
write_batch(s, events) ==
    LET last_count == s.event_count
        after == extend(s, events)
    IN  [self |-> after,
         result |-> [last_count |-> last_count, event_count |-> after.event_count]]

\* E::default(), for an event type that has one
E_default == "a"

\* Events::write_default
write_default(s) == write(s, E_default)

\* Events::send (deprecated)
send(s, event) == write(s, event)

\* Events::send_batch (deprecated)
send_batch(s, events) == write_batch(s, events)

\* Faulty variant of send_default: an id is returned and nothing is written.
send_default_nothing(s) == [self |-> s, result |-> EventId(s.event_count)]

\* Events::send_default (deprecated)
send_default(s) == write_default(s)

\* Faulty variant of get_cursor_current: the cursor starts past the count.
get_cursor_current_ahead(s) == EventCursor(s.event_count + 1)

\* Faulty variant of get_cursor: the cursor starts at the current count.
get_cursor_at_count(s) == EventCursor(s.event_count)

\* Events::get_cursor
get_cursor(s) == EventCursor(0)

\* Faulty variant of get_cursor_current: the cursor starts one event back.
get_cursor_current_one_back(s) == EventCursor(saturating_sub(s.event_count, 1))

\* Events::get_cursor_current
get_cursor_current(s) == EventCursor(s.event_count)

\* Faulty variant of update: both buffers are cleared.
update_clears_both(s) ==
    Events(EventSequence(<<>>, s.events_b.start_event_count),
           EventSequence(<<>>, s.event_count),
           s.event_count)

\* Faulty variant of update: the older events are kept in front of the newer
\* ones instead of being cleared.
update_keeps_older(s) ==
    Events(EventSequence(s.events_a.events \o s.events_b.events,
                         s.events_a.start_event_count),
           EventSequence(<<>>, s.event_count),
           s.event_count)

\* Faulty variant of update: events_b.start_event_count is not set.
update_without_restart(s) ==
    LET swapped == Events(s.events_b, s.events_a, s.event_count)
        b == EventSequence(<<>>, swapped.events_b.start_event_count)
    IN  Events(swapped.events_a, b, swapped.event_count)

\* Faulty variant of update: the buffers are not swapped before events_b is
\* cleared.
update_without_swap(s) ==
    Events(s.events_a, EventSequence(<<>>, s.event_count), s.event_count)

\* Faulty variant of update: after the swap the wrong buffer is cleared, so
\* the previous newer generation is discarded and the older one is kept.
update_discards_newer(s) ==
    Events(EventSequence(<<>>, s.event_count), s.events_a, s.event_count)

\* Events::update: swap, clear the (new) events_b, restart it at event_count
update(s) ==
    LET swapped == Events(s.events_b, s.events_a, s.event_count)
        b == EventSequence(<<>>, s.event_count)
    IN  Events(swapped.events_a, b, swapped.event_count)

\* Faulty variant of update_drain: events_b is drained before the swap, so
\* the newest events are returned and removed.
update_drain_newer(s) ==
    LET iter == s.events_b.events
        b == EventSequence(<<>>, s.event_count)
    IN  [self |-> Events(s.events_a, b, s.event_count),
         result |-> Map(iter, LAMBDA e : e.event)]

\* Events::update_drain: as update, returning the drained payloads
update_drain(s) ==
    LET swapped == Events(s.events_b, s.events_a, s.event_count)
        iter == swapped.events_b.events
        b == EventSequence(<<>>, s.event_count)
    IN  [self |-> Events(swapped.events_a, b, swapped.event_count),
         result |-> Map(iter, LAMBDA e : e.event)]

\* Faulty variant of reset_start_event_count: events_a is left alone.
reset_start_of_b_only(s) ==
    Events(s.events_a,
           EventSequence(s.events_b.events, s.event_count),
           s.event_count)

\* Events::reset_start_event_count
reset_start_event_count(s) ==
    Events(EventSequence(s.events_a.events, s.event_count),
           EventSequence(s.events_b.events, s.event_count),
           s.event_count)

\* Faulty variant of clear: the start counts go back to 0.
clear_to_zero(s) ==
    Events(EventSequence(<<>>, 0), EventSequence(<<>>, 0), s.event_count)

\* Events::clear
clear(s) ==
    LET r == reset_start_event_count(s)
    IN  Events(EventSequence(<<>>, r.events_a.start_event_count),
               EventSequence(<<>>, r.events_b.start_event_count),
               r.event_count)

\* Faulty variant of len: only the newer generation is counted.
len_of_newer(s) == Len(s.events_b.events)

\* Events::len
len(s) == Len(s.events_a.events) + Len(s.events_b.events)

\* Faulty variant of is_empty: only the newer generation is looked at.
is_empty_newer(s) == Len(s.events_b.events) = 0

\* Events::is_empty
is_empty(s) == len(s) = 0

\* Faulty variant of drain: the newest events come first.
drain_newest_first(s) ==
    LET r == reset_start_event_count(s)
    IN  [self |-> Events(EventSequence(<<>>, r.events_a.start_event_count),
                         EventSequence(<<>>, r.events_b.start_event_count),
                         r.event_count),
         result |-> Map(r.events_b.events \o r.events_a.events, LAMBDA i : i.event)]

\* Faulty variant of drain: only the older generation is drained.
drain_older_only(s) ==
    LET r == reset_start_event_count(s)
    IN  [self |-> Events(EventSequence(<<>>, r.events_a.start_event_count),
                         r.events_b,
                         r.event_count),
         result |-> Map(r.events_a.events, LAMBDA i : i.event)]

\* Events::drain: the oldest events first, then the newest
drain(s) ==
    LET r == reset_start_event_count(s)
    IN  [self |-> Events(EventSequence(<<>>, r.events_a.start_event_count),
                         EventSequence(<<>>, r.events_b.start_event_count),
                         r.event_count),
         result |-> Map(r.events_a.events \o r.events_b.events, LAMBDA i : i.event)]

\* Events::iter_current_update_events
iter_current_update_events(s) == Map(s.events_b.events, LAMBDA i : i.event)

\* Faulty variant of sequence: the two generations are taken for each other.
sequence_swapped(s, id) ==
    IF id < s.events_b.start_event_count THEN s.events_b ELSE s.events_a

\* Faulty variant of sequence: the comparison is off by one.
sequence_off_by_one(s, id) ==
    IF id <= s.events_b.start_event_count THEN s.events_a ELSE s.events_b

\* Events::sequence: which buffer an id is part of
sequence(s, id) ==
    IF id < s.events_b.start_event_count THEN s.events_a ELSE s.events_b

\* Events::get_event
get_event(s, id) ==
    IF id < oldest_event_count(s) THEN None
    ELSE LET seq == sequence(s, id)
             index == saturating_sub(id, seq.start_event_count)
             found == get(seq.events, index)
         IN  IF found.some
             THEN Some([event |-> found.value.event, event_id |-> found.value.event_id])
             ELSE None

\* ---------------------------------------------------------- WriteBatchIds
\* Faulty variant of WriteBatchIds_next: the end is not tested.
WriteBatchIds_next_unchecked(it) ==
    [iter |-> [last_count |-> it.last_count + 1, event_count |-> it.event_count],
     result |-> Some(EventId(it.last_count))]

\* Iterator::next of WriteBatchIds
WriteBatchIds_next(it) ==
    IF it.last_count >= it.event_count
    THEN [iter |-> it, result |-> None]
    ELSE [iter |-> [last_count |-> it.last_count + 1, event_count |-> it.event_count],
          result |-> Some(EventId(it.last_count))]

\* Faulty variant of WriteBatchIds_len: the id about to be yielded is not
\* counted.
WriteBatchIds_len_off_by_one(it) ==
    saturating_sub(it.event_count, it.last_count + 1)

\* ExactSizeIterator::len of WriteBatchIds
WriteBatchIds_len(it) == saturating_sub(it.event_count, it.last_count)

\* the ids a ticket yields when next() is called until it returns None
RECURSIVE WriteBatchIds_collect(_)
WriteBatchIds_collect(it) ==
    LET n == WriteBatchIds_next(it)
    IN  IF n.result.some THEN <<n.result.value>> \o WriteBatchIds_collect(n.iter)
        ELSE <<>>

\* ------------------------------------------------------------- the cursor
\* EventCursor::read, from the specification of the cursor (4.2): the records
\* whose ordinal is >= max(last_seen_ordinal, oldest_retained_ordinal), the
\* older generation's before the newer generation's; the cursor ends at the
\* buffer's event_count.
EventCursor_read(cursor, s) ==
    LET from == Max(cursor.last_event_count, oldest_event_count(s))
        unread(i) == i.event_id.id >= from
        a == SelectSeq(s.events_a.events, unread)
        b == SelectSeq(s.events_b.events, unread)
    IN  [cursor |-> EventCursor(s.event_count),
         result |-> a \o b]

\* ------------------------------------------------------ the state machine
\* what the history keeps of a written event: its payload and the number of
\* rotations since it was written (0, 1, or 2 for "two or more")
\* together with the id its write call returned
Written(e, event_id) == [event |-> e, id |-> event_id.id, age |-> 0]
Aged(w) == [w EXCEPT !.age = Min(w.age + 1, 2)]

\* what the history keeps per cursor:
\*   mode                the method that created it
\*   origin              for a cursor made by get_cursor_current, the number
\*                       of events written before it was made; else 0
\*   updates_since_read  rotations since its last read, or since the start of
\*                       the run if it never read (0, 1, 2, or 3 for "three or
\*                       more")
\*   regular             no two consecutive rotations so far without a read of
\*                       this cursor between them
\*   last                "never" until its first read; then "read" while
\*                       nothing was written since its last read, else "write"
\*   missed              ids written before the first of two rotations that
\*                       both followed the cursor's last read, and not
\*                       delivered to it by then
NoReads == [mode |-> "none", origin |-> 0, updates_since_read |-> 0,
            regular |-> TRUE, last |-> "never", missed |-> {}]

\* the readers of the run: those the initial state has a cursor slot for
Readers == DOMAIN cursors

Ids(records) == {records[i].event_id.id : i \in 1..Len(records)}

SetBuffer(s) ==
    /\ events_a' = s.events_a
    /\ events_b' = s.events_b
    /\ event_count' = s.event_count

AfterWrite(n) ==
    IF n = 0 THEN reads
    ELSE [c \in Readers |->
             [reads[c] EXCEPT !.last = IF @ = "read" THEN "write" ELSE @]]

AfterRotation ==
    LET aged == Map(written, Aged)
        old == {i \in 0..(Len(aged) - 1) : aged[i + 1].age = 2}
    IN  /\ written' = aged
        /\ reads' = [c \in Readers |->
              LET n == Min(reads[c].updates_since_read + 1, 3)
              IN  [reads[c] EXCEPT
                      !.updates_since_read = n,
                      !.regular = reads[c].regular /\ reads[c].updates_since_read = 0,
                      !.missed = IF n >= 2 THEN @ \cup (old \ Ids(delivered[c])) ELSE @]]

Init ==
    /\ events_a = Events_default.events_a
    /\ events_b = Events_default.events_b
    /\ event_count = Events_default.event_count
    /\ cursors = [c \in Cursors |-> [created |-> FALSE, cursor |-> EventCursor(0)]]
    /\ written = <<>>
    /\ delivered = [c \in Cursors |-> <<>>]
    /\ reads = [c \in Cursors |-> NoReads]
    /\ cleared = FALSE

Write(e) ==
    /\ event_count < MaxEvents
    /\ LET r == write(self, e)
       IN  /\ SetBuffer(r.self)
           /\ written' = Append(written, Written(e, r.result))
    /\ reads' = AfterWrite(1)
    /\ UNCHANGED <<cursors, delivered, cleared>>

WriteBatch(events) ==
    /\ event_count + Len(events) <= MaxEvents
    /\ LET r == write_batch(self, events)
           ids == WriteBatchIds_collect(r.result)
       IN  /\ SetBuffer(r.self)
           /\ written' = written \o [i \in 1..Len(ids) |-> Written(events[i], ids[i])]
    /\ reads' = AfterWrite(Len(events))
    /\ UNCHANGED <<cursors, delivered, cleared>>

\* the deprecated names and write_default
Send(e) ==
    /\ event_count < MaxEvents
    /\ LET r == send(self, e)
       IN  /\ SetBuffer(r.self)
           /\ written' = Append(written, Written(e, r.result))
    /\ reads' = AfterWrite(1)
    /\ UNCHANGED <<cursors, delivered, cleared>>

SendBatch(events) ==
    /\ event_count + Len(events) <= MaxEvents
    /\ LET r == send_batch(self, events)
           ids == WriteBatchIds_collect(r.result)
       IN  /\ SetBuffer(r.self)
           /\ written' = written \o [i \in 1..Len(ids) |-> Written(events[i], ids[i])]
    /\ reads' = AfterWrite(Len(events))
    /\ UNCHANGED <<cursors, delivered, cleared>>

WriteDefault ==
    /\ event_count < MaxEvents
    /\ LET r == write_default(self)
       IN  /\ SetBuffer(r.self)
           /\ written' = Append(written, Written(E_default, r.result))
    /\ reads' = AfterWrite(1)
    /\ UNCHANGED <<cursors, delivered, cleared>>

SendDefault ==
    /\ event_count < MaxEvents
    /\ LET r == send_default(self)
       IN  /\ SetBuffer(r.self)
           /\ written' = Append(written, Written(E_default, r.result))
    /\ reads' = AfterWrite(1)
    /\ UNCHANGED <<cursors, delivered, cleared>>

Update ==
    /\ SetBuffer(update(self))
    /\ AfterRotation
    /\ UNCHANGED <<cursors, delivered, cleared>>

UpdateDrain ==
    /\ SetBuffer(update_drain(self).self)
    /\ AfterRotation
    /\ UNCHANGED <<cursors, delivered, cleared>>

Clear ==
    /\ SetBuffer(clear(self))
    /\ cleared' = TRUE
    /\ UNCHANGED <<cursors, written, delivered, reads>>

Drain ==
    /\ SetBuffer(drain(self).self)
    /\ cleared' = TRUE
    /\ UNCHANGED <<cursors, written, delivered, reads>>

GetCursor(c) ==
    /\ ~cursors[c].created
    /\ LET cursor == get_cursor(self)
       IN  /\ cursors' = [cursors EXCEPT ![c] = [created |-> TRUE, cursor |-> cursor]]
           /\ reads' = [reads EXCEPT ![c].mode = "catch_up"]
    /\ UNCHANGED <<events_a, events_b, event_count, written, delivered, cleared>>

GetCursorCurrent(c) ==
    /\ ~cursors[c].created
    /\ LET cursor == get_cursor_current(self)
       IN  /\ cursors' = [cursors EXCEPT ![c] = [created |-> TRUE, cursor |-> cursor]]
           /\ reads' = [reads EXCEPT ![c].mode = "current", ![c].origin = Len(written)]
    /\ UNCHANGED <<events_a, events_b, event_count, written, delivered, cleared>>

\* Faulty variant of Read: the position is kept in the buffer, one for all
\* the cursors.
Read_shared_position(c) ==
    /\ cursors[c].created
    /\ LET r == EventCursor_read(cursors[c].cursor, self)
       IN  /\ cursors' = [d \in Readers |-> [cursors[d] EXCEPT !.cursor = r.cursor]]
           /\ delivered' = [delivered EXCEPT ![c] = @ \o r.result]
    /\ reads' = [reads EXCEPT ![c].updates_since_read = 0, ![c].last = "read"]
    /\ UNCHANGED <<events_a, events_b, event_count, written, cleared>>

\* cursor.read(&events), the returned iterator consumed to its end
Read(c) ==
    /\ cursors[c].created
    /\ LET r == EventCursor_read(cursors[c].cursor, self)
       IN  /\ cursors' = [cursors EXCEPT ![c].cursor = r.cursor]
           /\ delivered' = [delivered EXCEPT ![c] = @ \o r.result]
    /\ reads' = [reads EXCEPT ![c].updates_since_read = 0, ![c].last = "read"]
    /\ UNCHANGED <<events_a, events_b, event_count, written, cleared>>

Next ==
    \/ \E e \in Payloads : Write(e)
    \/ \E events \in Batches : WriteBatch(events)
    \/ Update
    \/ UpdateDrain
    \/ Clear
    \/ Drain
    \/ \E c \in Readers : GetCursor(c)
    \/ \E c \in Readers : GetCursorCurrent(c)
    \/ \E c \in Readers : Read(c)

Spec == Init /\ [][Next]_vars

\* ------------------------------------------- two cursors on one buffer
\* Two readers of one buffer; the events carry one payload.
Pair == {1, 2}

InitPair ==
    /\ events_a = Events_default.events_a
    /\ events_b = Events_default.events_b
    /\ event_count = Events_default.event_count
    /\ cursors = [c \in Pair |-> [created |-> FALSE, cursor |-> EventCursor(0)]]
    /\ written = <<>>
    /\ delivered = [c \in Pair |-> <<>>]
    /\ reads = [c \in Pair |-> NoReads]
    /\ cleared = FALSE

NextPair ==
    \/ Write("a")
    \/ Update
    \/ \E c \in Readers : GetCursor(c)
    \/ \E c \in Readers : GetCursorCurrent(c)
    \/ \E c \in Readers : Read(c)

SpecPair == InitPair /\ [][NextPair]_vars

\* --------------------------------------------- one read per frame
\* A frame starts with the driver's update(); in it the reader reads once
\* and the producers write, in any order. The reader's cursor is the one
\* get_cursor() gives at setup.
ReadDone(c) == reads[c].last # "never" /\ reads[c].updates_since_read = 0

InitFrame ==
    /\ events_a = Events_default.events_a
    /\ events_b = Events_default.events_b
    /\ event_count = Events_default.event_count
    /\ cursors = [c \in Cursors |->
                     [created |-> TRUE, cursor |-> get_cursor(Events_default)]]
    /\ written = <<>>
    /\ delivered = [c \in Cursors |-> <<>>]
    /\ reads = [c \in Cursors |-> [NoReads EXCEPT !.mode = "catch_up"]]
    /\ cleared = FALSE

\* the reader's one read of the frame
FrameRead(c) == ~ReadDone(c) /\ Read(c)

\* the end of the frame: the next one starts with update()
FrameUpdate == (\A c \in Readers : ReadDone(c)) /\ Update

NextFrame ==
    \/ \E e \in Payloads : Write(e)
    \/ \E events \in Batches : WriteBatch(events)
    \/ \E c \in Readers : FrameRead(c)
    \/ FrameUpdate

SpecFrame == InitFrame /\ [][NextFrame]_vars

\* ------------------------------------- every operation, one cursor
\* The buffer under every operation of Events, read through the cursor
\* get_cursor() gave at setup.
NextSetup ==
    \/ \E e \in Payloads : Write(e)
    \/ \E events \in Batches : WriteBatch(events)
    \/ Update
    \/ UpdateDrain
    \/ Clear
    \/ Drain
    \/ \E c \in Readers : Read(c)

SpecSetup == InitFrame /\ [][NextSetup]_vars

\* ----------------------------------- every operation, one payload
\* Every operation of Events and both ways to make the cursor, with events
\* that differ in nothing but their ordinal.
Blanks == UNION {[1..n -> {"a"}] : n \in 0..MaxBatch}

NextOrdinals ==
    \/ Write("a")
    \/ \E events \in Blanks : WriteBatch(events)
    \/ Send("a")
    \/ \E events \in Blanks : SendBatch(events)
    \/ WriteDefault
    \/ SendDefault
    \/ Update
    \/ UpdateDrain
    \/ Clear
    \/ Drain
    \/ \E c \in Readers : GetCursor(c)
    \/ \E c \in Readers : GetCursorCurrent(c)
    \/ \E c \in Readers : Read(c)

SpecOrdinals == Init /\ [][NextOrdinals]_vars

\* ------------------------- a reader of every rotation and one of every third
\* Two cursors got from get_cursor() at setup. The fast one is read once
\* after every rotation, the slow one once after every third rotation; the
\* writes fall anywhere.
Fast == 1
Slow == 2

InitThird ==
    /\ events_a = Events_default.events_a
    /\ events_b = Events_default.events_b
    /\ event_count = Events_default.event_count
    /\ cursors = [c \in {Fast, Slow} |->
                     [created |-> TRUE, cursor |-> get_cursor(Events_default)]]
    /\ written = <<>>
    /\ delivered = [c \in {Fast, Slow} |-> <<>>]
    /\ reads = [c \in {Fast, Slow} |-> [NoReads EXCEPT !.mode = "catch_up"]]
    /\ cleared = FALSE

\* the fast cursor's read, due after a rotation
FastRead == reads[Fast].updates_since_read = 1 /\ Read(Fast)

\* the slow cursor's read, due after the third rotation since its last
SlowRead == reads[Slow].updates_since_read = 3 /\ Read(Slow)

\* a rotation, when no read is due
ThirdUpdate ==
    /\ reads[Fast].updates_since_read = 0
    /\ reads[Slow].updates_since_read < 3
    /\ Update

NextThird ==
    \/ Write("a")
    \/ ThirdUpdate
    \/ FastRead
    \/ SlowRead

SpecThird == InitThird /\ [][NextThird]_vars

\* ------------------------------------------------------------- properties
\* the record of the i-th event ever written (counting from 0), as write made it
Record(i) == EventInstance(i, written[i + 1].event)
\* the records of the events with ordinals lo, lo + 1, ..., hi - 1
Range(lo, hi) == [k \in 1..(hi - lo) |-> Record(lo + (k - 1))]
\* everything the buffer holds, older generation first
Retained == events_a.events \o events_b.events
Position(c) == cursors[c].cursor.last_event_count
\* what a read of cursor c would do in the current state
NextRead(c) == EventCursor_read(cursors[c].cursor, self)
CatchUp(c) == cursors[c].created /\ reads[c].mode = "catch_up"

\* write(e1), ..., write(en) in order: the buffer left and the ids returned
RECURSIVE WriteLoop(_, _)
WriteLoop(s, events) ==
    IF events = <<>> THEN [self |-> s, ids |-> <<>>]
    ELSE LET r == write(s, Head(events))
             rest == WriteLoop(r.self, Tail(events))
         IN  [self |-> rest.self, ids |-> <<r.result>> \o rest.ids]

\* C1 (no-drop law): with no clear() or drain(), a catch-up cursor that reads
\* at least once between every two consecutive rotations has been yielded
\* exactly the events 0 .. position-1, each once and in order; no event it has
\* not yet been yielded has left the buffer; its next read yields all the
\* events written since; and right after a read it has been yielded every
\* event ever written.
NoDropLaw ==
    \A c \in Cursors :
        (CatchUp(c) /\ reads[c].regular /\ ~cleared) =>
            /\ delivered[c] = Range(0, Position(c))
            /\ Position(c) >= oldest_event_count(self)
            /\ NextRead(c).result = Range(Position(c), Len(written))
            /\ (reads[c].last = "read" => delivered[c] = Range(0, Len(written)))

\* three events written over three iterations, each read once per rotation,
\* the first already rotated out
NoDropWitness ==
    /\ CatchUp(1) /\ reads[1].regular /\ ~cleared
    /\ Len(delivered[1]) = 3
    /\ written[1].age = 2 /\ written[3].age = 0

\* C2 (drop law): an event written before the first of two rotations that
\* both followed a cursor's last read is never yielded to that cursor by a
\* later read; and a read after two rotations yields no event that was
\* written before the first of them.
DropLaw ==
    \A c \in Cursors :
        /\ reads[c].missed \cap Ids(delivered[c]) = {}
        /\ (cursors[c].created /\ reads[c].updates_since_read >= 2) =>
               \A i \in Ids(NextRead(c).result) : written[i + 1].age < 2

\* write A; rotate; rotate; write B; read: A is missed, B is yielded
DropWitness ==
    /\ reads[1].last = "read"
    /\ \E m \in reads[1].missed : \E d \in Ids(delivered[1]) : m < d

\* C3 (ordinals): the i-th event ever written (from 0) was assigned id i, so
\* no id is issued twice; event_count is the number of events written; a
\* write returns the event_count before the call and increases it by one.
OrdinalsConsecutive ==
    /\ Len(written) = event_count
    /\ \A i \in 1..Len(written) : written[i].id = i - 1
    /\ \A e \in Payloads :
           LET r == write(self, e)
           IN  /\ r.result = EventId(event_count)
               /\ r.self.event_count = event_count + 1

\* three events written, the last one after a clear: it continues the numbering
OrdinalsWitness ==
    /\ cleared
    /\ Len(written) = 3
    /\ events_b.events # <<>>
    /\ events_b.start_event_count > 0

\* C4 (batch = loop): from every reachable buffer, write_batch(e1..en) leaves
\* the buffer that write(e1), ..., write(en) leave and its ticket yields the
\* ids they return, which are k, k+1, ..., k+n-1 for the event_count k before
\* the call; an empty batch changes nothing.
BatchEqualsLoop ==
    \A events \in Batches :
        LET b == write_batch(self, events)
            l == WriteLoop(self, events)
        IN  /\ b.self = l.self
            /\ WriteBatchIds_collect(b.result) = l.ids
            /\ l.ids = [i \in 1..Len(events) |-> EventId(event_count + (i - 1))]
            /\ (events = <<>> => b.self = self)

\* a buffer with events in both generations, on which a batch of two
\* different payloads lands behind the newer generation's events
BatchWitness ==
    /\ events_a.events # <<>>
    /\ events_b.events # <<>>
    /\ \E events \in Batches :
           /\ Len(events) = 2 /\ events[1] # events[2]
           /\ LET after == write_batch(self, events).self.events_b.events
              IN  /\ Len(after) = Len(events_b.events) + 2
                  /\ after[Len(after)].event_id.id = event_count + 1

\* C5 (read): a read yields exactly the retained records whose ordinal is
\* >= max(the cursor's position, oldest_event_count), which are the records
\* of all ordinals from there up to event_count, in strictly ascending
\* order, and leaves the cursor at event_count.
ReadYields ==
    \A c \in Cursors :
        cursors[c].created =>
            LET r == NextRead(c)
                from == Max(Position(c), oldest_event_count(self))
                unread(i) == i.event_id.id >= from
            IN  /\ r.result = SelectSeq(Retained, unread)
                /\ r.result = Range(from, event_count)
                /\ \A j \in 1..(Len(r.result) - 1) :
                       r.result[j].event_id.id < r.result[j + 1].event_id.id
                /\ r.cursor.last_event_count = event_count
                /\ (reads[c].last = "read" => Position(c) = event_count)

\* a cursor that has read before, in the middle of the older generation,
\* with events in the newer generation as well
ReadWitness ==
    /\ cursors[1].created
    /\ delivered[1] # <<>>
    /\ events_a.start_event_count < Position(1)
    /\ Position(1) < events_b.start_event_count
    /\ events_b.events # <<>>

\* C6 (read idempotence): the first read of a catch-up cursor, when no
\* rotation (and no clear or drain) has happened since the events were
\* written, yields every event written so far exactly once; and a read of a
\* cursor that follows another read of it with no event written in between
\* yields nothing.
ReadIdempotence ==
    \A c \in Cursors :
        /\ (/\ CatchUp(c) /\ reads[c].last = "never" /\ ~cleared
            /\ \A i \in 1..Len(written) : written[i].age = 0)
               => NextRead(c).result = Range(0, Len(written))
        /\ (cursors[c].created /\ reads[c].last = "read")
               => NextRead(c).result = <<>>

\* a catch-up cursor has been yielded all three events, none of them rotated,
\* and nothing was written since its last read
IdempotenceWitness ==
    /\ CatchUp(1) /\ reads[1].last = "read" /\ ~cleared
    /\ Len(written) = 3
    /\ \A i \in 1..Len(written) : written[i].age = 0
    /\ delivered[1] = Range(0, 3)

\* C7 (retention window): with no clear() or drain(), an event that has seen
\* fewer than two rotations since it was written is stored, get_event finds
\* it and a read from any position <= its id yields it; an event that has
\* seen two rotations is in neither generation and get_event finds nothing.
RetentionWindow ==
    ~cleared =>
        \A i \in 0..(Len(written) - 1) :
            IF written[i + 1].age < 2
            THEN /\ \E j \in 1..Len(Retained) : Retained[j] = Record(i)
                 /\ get_event(self, i) =
                        Some([event |-> written[i + 1].event, event_id |-> EventId(i)])
                 /\ \A p \in 0..i :
                        LET got == EventCursor_read(EventCursor(p), self).result
                        IN  \E j \in 1..Len(got) : got[j] = Record(i)
            ELSE /\ \A j \in 1..Len(Retained) : Retained[j].event_id.id # i
                 /\ get_event(self, i) = None

\* one event rotated out, one that survived a rotation, one just written
RetentionWitness ==
    /\ ~cleared
    /\ Len(written) = 3
    /\ written[1].age = 2 /\ written[2].age = 1 /\ written[3].age = 0

\* C8 (get_event): for every id in [oldest_event_count, event_count),
\* get_event returns the payload written with that ordinal and an EventId
\* with that id; for every other id, below or above, it returns None.
GetEventTotal ==
    \A id \in 0..(event_count + 2) :
        get_event(self, id) =
            IF oldest_event_count(self) <= id /\ id < event_count
            THEN Some([event |-> written[id + 1].event, event_id |-> EventId(id)])
            ELSE None

\* ids below the oldest, ids in the older and ids in the newer generation
GetEventWitness ==
    /\ events_a.start_event_count > 0
    /\ events_a.events # <<>>
    /\ events_b.events # <<>>
    /\ ~cleared

\* C9 (contiguity): events_a.start_event_count + events_a.len() equals
\* events_b.start_event_count in every state between two calls.
Contiguity ==
    events_a.start_event_count + Len(events_a.events) = events_b.start_event_count

\* both generations hold events written after a clear
ContiguityWitness ==
    /\ cleared
    /\ events_a.start_event_count > 0
    /\ events_a.events # <<>>
    /\ events_b.events # <<>>

\* C10 (counter): event_count equals events_b.start_event_count +
\* events_b.len() (and so is never below it) in every state between two calls.
CounterInvariant ==
    /\ event_count >= events_b.start_event_count + Len(events_b.events)
    /\ event_count = events_b.start_event_count + Len(events_b.events)

\* two events written into a generation that starts above 0, nothing older
CounterWitness ==
    /\ events_b.start_event_count > 0
    /\ Len(events_b.events) >= 2
    /\ events_a.events = <<>>

\* the payloads of the events with ordinals lo, ..., hi - 1, in that order
PayloadRange(lo, hi) == [k \in 1..(hi - lo) |-> written[lo + k].event]
\* the number of events written that have seen fewer than n rotations
Younger(n) == Cardinality({i \in 1..Len(written) : written[i].age < n})

\* C11 (len and current events): after writes and updates only, len() is the
\* number of events written since the second-most-recent update (all of
\* them if there were fewer than two updates) and
\* iter_current_update_events() yields the events written since the most
\* recent update, in write order.
LenCountsTwoUpdates ==
    ~cleared =>
        /\ len(self) = Younger(2)
        /\ iter_current_update_events(self) =
               PayloadRange(Len(written) - Younger(1), Len(written))

\* write 1, update, write 2: len 3 and two current events
LenWitness ==
    /\ ~cleared
    /\ Len(written) = 3
    /\ written[1].age = 1 /\ written[2].age = 0
    /\ len(self) = 3
    /\ Len(iter_current_update_events(self)) = 2

\* C12 (len, is_empty): len() is the number of records in the two
\* generations; after n writes with no rotation since the first of them (and
\* no clear or drain) len() is n; is_empty() is true exactly when len() is 0,
\* which is exactly when no record is retained.
LenAndIsEmpty ==
    /\ len(self) = Len(Retained)
    /\ is_empty(self) <=> (len(self) = 0)
    /\ is_empty(self) <=> (Retained = <<>>)
    /\ (~cleared /\ \A i \in 1..Len(written) : written[i].age = 0)
           => len(self) = Len(written)

\* the newer generation is empty and the buffer is not
IsEmptyWitness ==
    /\ events_b.events = <<>>
    /\ ~is_empty(self)
    /\ len(self) = 2

\* C13 (clear): from every reachable buffer, clear() leaves both generations
\* empty with start_event_count equal to the event_count it found, leaves
\* event_count as it was, and a write after it gets an id greater than every
\* id issued before.
ClearResets ==
    LET c == clear(self)
    IN  /\ c.events_a = EventSequence(<<>>, event_count)
        /\ c.events_b = EventSequence(<<>>, event_count)
        /\ c.event_count = event_count
        /\ \A e \in Payloads : \A i \in 1..Len(written) :
               write(c, e).result.id > written[i].id

\* a buffer emptied by clear() or drain() after two events were written
ClearWitness ==
    /\ cleared
    /\ event_count >= 2
    /\ is_empty(self)
    /\ events_a.start_event_count = event_count
    /\ events_b.start_event_count = event_count
    /\ self = clear(self)

\* C14 (update): from every reachable buffer, update() leaves the previous
\* newer generation, records and start count, as the older one, no record of
\* the previous older generation, an empty newer generation that starts at
\* event_count, and event_count as it was.
UpdateRotates ==
    LET u == update(self)
    IN  /\ u.events_a = events_b
        /\ u.events_b = EventSequence(<<>>, event_count)
        /\ u.event_count = event_count
        /\ Ids(u.events_a.events \o u.events_b.events) \cap Ids(events_a.events) = {}
        /\ len(u) = Len(events_b.events)

\* a rotation that had an older generation to discard and a newer to promote
UpdateWitness ==
    /\ ~cleared
    /\ Len(written) = 3
    /\ written[1].age = 2 /\ written[3].age = 1
    /\ events_b.events = <<>>

\* update_drain() when the caller takes k of the returned payloads and drops
\* the iterator: Vec::drain(..) empties the vector whatever is taken
update_drain_take(s, k) ==
    LET r == update_drain(s)
    IN  [self |-> r.self, result |-> SubSeq(r.result, 1, k)]

\* C15 (update_drain): from every reachable buffer, update_drain() leaves the
\* buffer update() leaves, however many of the returned payloads the caller
\* takes, and returns the payloads of the previous older generation in
\* ascending ordinal order.
UpdateDrainAsUpdate ==
    LET r == update_drain(self)
    IN  /\ r.self = update(self)
        /\ r.result = Map(events_a.events, LAMBDA i : i.event)
        /\ r.result = PayloadRange(events_a.start_event_count,
                                   events_a.start_event_count + Len(events_a.events))
        /\ \A k \in 0..Len(r.result) :
               /\ update_drain_take(self, k).self = update(self)
               /\ update_drain_take(self, k).result =
                      PayloadRange(events_a.start_event_count,
                                   events_a.start_event_count + k)

\* an older generation of two different payloads to drain, a newer one to keep
UpdateDrainWitness ==
    /\ Len(events_a.events) = 2
    /\ events_a.events[1].event # events_a.events[2].event
    /\ events_b.events # <<>>
    /\ Len(update_drain(self).result) = 2

\* C16 (drain): from every reachable buffer, drain() returns the payloads of
\* all retained events in ascending ordinal order, the older generation's
\* first, and leaves the buffer clear() leaves: both generations empty, both
\* start counts at event_count, event_count as it was.
DrainAsClear ==
    LET r == drain(self)
    IN  /\ r.result = Map(Retained, LAMBDA i : i.event)
        /\ r.result = PayloadRange(oldest_event_count(self), event_count)
        /\ r.self = clear(self)
        /\ r.self = Events(EventSequence(<<>>, event_count),
                           EventSequence(<<>>, event_count), event_count)

\* both generations hold an event, with different payloads
DrainWitness ==
    /\ events_a.events # <<>>
    /\ events_b.events # <<>>
    /\ events_a.events[1].event # events_b.events[1].event
    /\ Len(drain(self).result) = len(self)

\* C17 (cursor modes): a cursor made by get_cursor_current is never yielded
\* an event written before it was made, and its first read yields exactly
\* the retained events written after it was made; the first read of a cursor
\* made by get_cursor yields every retained event.
CursorModes ==
    \A c \in Readers :
        LET from(p) == Max(p, oldest_event_count(self))
        IN  /\ (cursors[c].created /\ reads[c].mode = "current") =>
                   /\ \A i \in Ids(delivered[c]) : i >= reads[c].origin
                   /\ reads[c].last = "never" =>
                          NextRead(c).result = Range(from(reads[c].origin), Len(written))
            /\ (CatchUp(c) /\ reads[c].last = "never") =>
                   /\ NextRead(c).result = Retained
                   /\ NextRead(c).result = Range(from(0), Len(written))

\* a cursor made after the first event was written has been yielded the
\* later events and not the first, which is still retained
CursorModesWitness ==
    /\ cursors[1].created /\ reads[1].mode = "current"
    /\ reads[1].origin = 1
    /\ Len(delivered[1]) = 2
    /\ oldest_event_count(self) = 0
    /\ len(self) = 3

\* the last n of the records
LastN(records, n) == SubSeq(records, Len(records) - n + 1, Len(records))

\* the records a read from position p yields directly after the batch is
\* written to the buffer end with the batch's events from p on, under the
\* ids the write returned
VisibleAfter(events) ==
    LET w == write_batch(self, events)
        ids == WriteBatchIds_collect(w.result)
        added == [k \in 1..Len(events) |-> EventInstance(ids[k].id, events[k])]
    IN  /\ \A k \in 1..Len(events) : ids[k] = EventId(event_count + k - 1)
        /\ \A p \in 0..(event_count + Len(events) - 1) :
               LET r == EventCursor_read(EventCursor(p), w.self).result
                   n == Min(Len(events), event_count + Len(events) - p)
               IN  /\ Len(r) >= n
                   /\ LastN(r, n) = LastN(added, n)

\* C20 (immediate visibility): from every reachable buffer, a read that
\* follows a write or a write_batch with no rotation, clear or drain in
\* between, by a cursor at any position not above the new event's id, yields
\* the new event, under the id the write returned, after every older event.
ImmediateVisibility ==
    /\ \A e \in Payloads :
           LET w == write(self, e)
           IN  /\ w.result = EventId(event_count)
               /\ w.self = write_batch(self, <<e>>).self
    /\ \A events \in Batches : VisibleAfter(events)

\* no rotation has happened and the cursor has been yielded both events
VisibilityWitness ==
    /\ ~cleared
    /\ Len(written) = 2
    /\ \A i \in 1..Len(written) : written[i].age = 0
    /\ reads[1].last = "read"
    /\ delivered[1] = Range(0, 2)
    /\ events_a.events = <<>>

\* the records among lo, ..., hi - 1 whose ids are not in the set, in order
RangeWithout(lo, hi, ids) ==
    LET kept(i) == i.event_id.id \notin ids
    IN  SelectSeq(Range(lo, hi), kept)

\* a step in which cursor c was read and yielded events or moved
ReadStepOf(c) ==
    /\ cursors[c].created /\ cursors'[c].created
    /\ \/ cursors'[c].cursor # cursors[c].cursor
       \/ delivered'[c] # delivered[c]

\* what cursor c has been yielded is fixed by the writes, the rotations and
\* its own reads: the events from its origin to its position, less those
\* rotated out between two of its reads
YieldedByOwnReads(c) ==
    cursors[c].created =>
        delivered[c] = RangeWithout(reads[c].origin, Position(c), reads[c].missed)

\* a read of cursor c leaves the buffer and the other cursors alone
ReadLeavesOthers(c) ==
    ReadStepOf(c) =>
        /\ UNCHANGED <<events_a, events_b, event_count>>
        /\ \A d \in Readers \ {c} :
               /\ cursors'[d] = cursors[d]
               /\ delivered'[d] = delivered[d]
               /\ EventCursor_read(cursors'[d].cursor,
                                   Events(events_a', events_b', event_count'))
                      = NextRead(d)

\* C18 (cursor independence): with two cursors on one buffer, a read of one
\* cursor leaves both generations, their start counts and event_count as
\* they were, and leaves the other cursor's position, the events it has been
\* yielded and the events its next read would yield as they were; so what a
\* cursor has been yielded is fixed by the writes, the rotations and its own
\* reads, whatever the reads of the other cursor.
CursorIndependence ==
    /\ [](\A c \in Readers : YieldedByOwnReads(c))
    /\ [][\A c \in Readers : ReadLeavesOthers(c)]_vars

\* one cursor has been yielded all three events while the other, made
\* before them, has been yielded only the first and is still at position 1
IndependenceWitness ==
    /\ Readers = Pair
    /\ Len(written) = 3
    /\ cursors[1].created /\ cursors[2].created
    /\ delivered[1] = Range(0, 3)
    /\ delivered[2] = Range(0, 1)
    /\ Position(2) = 1
    /\ Len(NextRead(2).result) = 2

\* C19 (one read per frame): when update() starts every frame and the
\* reader reads once in every frame, before or after the writes of the
\* frame, the reader has been yielded each event once, in write order; an
\* event written in an earlier frame has been yielded once the read of the
\* frame that followed its own is done; and no event reaches a second
\* update() without having been yielded.
FrameDelivery ==
    \A c \in Readers :
        /\ delivered[c] = Range(0, Position(c))
        /\ \A i \in 1..Len(written) :
               /\ (written[i].age = 1 /\ ReadDone(c)) => i <= Len(delivered[c])
               /\ written[i].age = 2 => i <= Len(delivered[c])
               /\ (written[i].age = 0 /\ reads[c].last = "read")
                      => i <= Len(delivered[c])
        /\ reads[c].missed = {}
        /\ NextRead(c).result = Range(Position(c), Len(written))

\* the first event was written before the read of its frame, the second
\* after it and yielded in the next frame, the third after the read of the
\* frame after that and not yet yielded
FrameWitness ==
    /\ Len(written) = 3
    /\ written[1].age = 2 /\ written[2].age = 1 /\ written[3].age = 0
    /\ ReadDone(1)
    /\ delivered[1] = Range(0, 2)
    /\ reads[1].last = "write"

\* the payloads of the records, in order
PayloadsOf(records) == [k \in 1..Len(records) |-> records[k].event]

\* write x; update; write y; write z, from the empty buffer: the ids the
\* writes return, the buffer at the end, what the read of a cursor got then
\* yields and what a second read of it yields
Scenario(x, y, z) ==
    LET w1 == write(Events_default, x)
        w2 == write(update(w1.self), y)
        w3 == write(w2.self, z)
        r1 == EventCursor_read(get_cursor(w3.self), w3.self)
        r2 == EventCursor_read(r1.cursor, w3.self)
    IN  [ids |-> <<w1.result, w2.result, w3.result>>,
         self |-> w3.self,
         first |-> r1.result,
         second |-> r2.result]

\* C21 (scenario): from the empty buffer, write "a" returns id 0; after one
\* rotation the writes of "b" and "c" return ids 1 and 2; then len() is 3,
\* the first read of a fresh catch-up cursor yields "a", "b", "c" in that
\* order and its second read yields nothing. The same holds of every run
\* that wrote one event, rotated and wrote two, whatever the payloads.
ScenarioABC ==
    /\ LET s == Scenario("a", "b", "c")
       IN  /\ s.ids = <<EventId(0), EventId(1), EventId(2)>>
           /\ len(s.self) = 3
           /\ PayloadsOf(s.first) = <<"a", "b", "c">>
           /\ s.second = <<>>
    /\ (/\ ~cleared
        /\ Len(written) = 3
        /\ written[1].age = 1 /\ written[2].age = 0 /\ written[3].age = 0) =>
           /\ self = Scenario(written[1].event, written[2].event, written[3].event).self
           /\ \A i \in 1..3 : written[i].id = i - 1
           /\ len(self) = 3
           /\ \A c \in Readers :
                  (CatchUp(c) /\ reads[c].last = "never") =>
                      /\ PayloadsOf(NextRead(c).result) = PayloadsOf(written)
                      /\ EventCursor_read(NextRead(c).cursor, self).result = <<>>

\* one event written, a rotation, two events written, and a catch-up
\* cursor that has been yielded the three and has nothing left to read
ScenarioWitness ==
    /\ ~cleared
    /\ Len(written) = 3
    /\ written[1].age = 1 /\ written[2].age = 0 /\ written[3].age = 0
    /\ PayloadsOf(written) = <<"a", "b", "a">>
    /\ CatchUp(1) /\ reads[1].last = "read"
    /\ PayloadsOf(delivered[1]) = <<"a", "b", "a">>
    /\ NextRead(1).result = <<>>

\* the ticket after j calls of next()
RECURSIVE WriteBatchIds_nth(_, _)
WriteBatchIds_nth(it, j) ==
    IF j = 0 THEN it ELSE WriteBatchIds_nth(WriteBatchIds_next(it).iter, j - 1)

\* C23 (WriteBatchIds): the ticket write_batch returns for n events written
\* at event_count k yields the ids k, k + 1, ..., k + n - 1 in that order
\* and then ends; before each call of next() its len() is the number of ids
\* still to come, n at the start and 0 at the end.
TicketExactSize ==
    \A events \in Batches :
        LET n == Len(events)
            ticket == write_batch(self, events).result
            at(j) == WriteBatchIds_nth(ticket, j)
        IN  /\ \A j \in 0..n : WriteBatchIds_len(at(j)) = n - j
            /\ \A j \in 0..(n - 1) :
                   WriteBatchIds_next(at(j)).result = Some(EventId(event_count + j))
            /\ WriteBatchIds_next(at(n)) = [iter |-> at(n), result |-> None]
            /\ Len(WriteBatchIds_collect(ticket)) = n

\* a batch of two written behind a first event: ids 1 and 2
TicketWitness ==
    /\ event_count = 1
    /\ LET ticket == write_batch(self, <<"a", "b">>).result
       IN  /\ WriteBatchIds_len(ticket) = 2
           /\ WriteBatchIds_collect(ticket) = <<EventId(1), EventId(2)>>
           /\ WriteBatchIds_len(WriteBatchIds_nth(ticket, 2)) = 0

\* C24 (totality): from every reachable buffer, get_event of any id, also
\* one below oldest_event_count() or not yet issued, has a result, None when
\* no record has the id; and a read from any position, also one far behind
\* oldest_event_count() or above event_count, has a result: the retained
\* events from that position on, fewer or none for a stale or ahead cursor,
\* with the cursor left at event_count. The debug assertions of update() and
\* update_drain() hold.
Totality ==
    /\ \A u \in {update(self), update_drain(self).self} :
           u.events_a.start_event_count + Len(u.events_a.events)
               = u.events_b.start_event_count
    /\ \A id \in 0..(event_count + 2) :
           LET found == get_event(self, id)
           IN  /\ found.some \in BOOLEAN
               /\ found.some <=> (\E i \in 1..Len(Retained) : Retained[i].event_id.id = id)
               /\ (id < oldest_event_count(self) \/ id >= event_count) => found = None
    /\ \A p \in 0..(event_count + 2) :
           LET r == EventCursor_read(EventCursor(p), self)
               from == Max(p, oldest_event_count(self))
           IN  /\ r.cursor = EventCursor(event_count)
               /\ r.result = Range(from, event_count)
               /\ Len(r.result) = saturating_sub(event_count, from)
               /\ Len(r.result) <= len(self)

\* a cursor two events behind the oldest retained event, and ids on both
\* sides of the retained range
TotalityWitness ==
    /\ cursors[1].created
    /\ Position(1) + 2 = oldest_event_count(self)
    /\ len(self) = 1
    /\ get_event(self, 0) = None
    /\ get_event(self, event_count) = None
    /\ Len(NextRead(1).result) = 1
    /\ EventCursor_read(EventCursor(event_count + 2), self).result = <<>>

\* the number of stored records with the ordinal
Stored(n) == Cardinality({i \in 1..Len(Retained) : Retained[i].event_id.id = n})

\* C25 (oldest_event_count): oldest_event_count() is the older generation's
\* start_event_count; no record with an ordinal below it is stored in either
\* generation, and every ordinal from it up to event_count - 1 is stored
\* exactly once.
OldestBound ==
    /\ oldest_event_count(self) = events_a.start_event_count
    /\ \A i \in 1..Len(Retained) :
           Retained[i].event_id.id >= oldest_event_count(self)
    /\ \A n \in 0..(oldest_event_count(self) - 1) : Stored(n) = 0
    /\ \A n \in oldest_event_count(self)..(event_count - 1) : Stored(n) = 1

\* the first event is gone, the second is in the older generation and the
\* third in the newer one
OldestWitness ==
    /\ oldest_event_count(self) = 1
    /\ Len(events_a.events) = 1
    /\ Len(events_b.events) = 1
    /\ Stored(0) = 0 /\ Stored(1) = 1 /\ Stored(2) = 1

\* C29 (monotonic counters): from every reachable buffer, update(),
\* update_drain(), clear() and drain() leave event_count as it was, write
\* and write_batch add the number of events written to it, and after each of
\* the six oldest_event_count() is not below what it was and not above
\* event_count.
CountersMonotonic ==
    /\ oldest_event_count(self) <= event_count
    /\ \A s \in {update(self), update_drain(self).self, clear(self), drain(self).self} :
           /\ s.event_count = event_count
           /\ oldest_event_count(s) >= oldest_event_count(self)
           /\ oldest_event_count(s) <= s.event_count
    /\ \A e \in Payloads :
           LET s == write(self, e).self
           IN  /\ s.event_count = event_count + 1
               /\ oldest_event_count(s) = oldest_event_count(self)
    /\ \A events \in Batches :
           LET s == write_batch(self, events).self
           IN  /\ s.event_count = event_count + Len(events)
               /\ oldest_event_count(s) = oldest_event_count(self)

\* a buffer whose oldest_event_count() a clear moved up to 2, with one event
\* written after it
CountersWitness ==
    /\ cleared
    /\ oldest_event_count(self) = 2
    /\ event_count = 3
    /\ oldest_event_count(update(self)) = 2
    /\ oldest_event_count(clear(self)) = 3

\* C30 (record and position): in both generations the record at index i has
\* the id start_event_count + i; from the first record of the older
\* generation to the last of the newer the ids go up by one.
RecordPositions ==
    /\ \A i \in 1..Len(events_a.events) :
           events_a.events[i].event_id.id = events_a.start_event_count + (i - 1)
    /\ \A i \in 1..Len(events_b.events) :
           events_b.events[i].event_id.id = events_b.start_event_count + (i - 1)
    /\ \A j \in 1..(Len(Retained) - 1) :
           Retained[j + 1].event_id.id = Retained[j].event_id.id + 1

\* after a clear at event_count 1, one record in the older generation and
\* one in the newer, at ids 1 and 2
PositionsWitness ==
    /\ cleared
    /\ events_a.start_event_count = 1
    /\ Len(events_a.events) = 1
    /\ events_b.start_event_count = 2
    /\ Len(events_b.events) = 1

\* the ordinals of the events written so far that cursor c has not been
\* yielded and that no read of it from now on yields: its next read does not
\* yield them, and a later one starts at or above event_count
Missed(c) ==
    {i \in 0..(Len(written) - 1) :
        i \notin Ids(delivered[c]) /\ i \notin Ids(NextRead(c).result)}

\* those of them at or above the cursor's position: the events the cursor's
\* next read is the one to lose
Lost(c) == {i \in Missed(c) : i >= Position(c)}

\* C26 as claimed: when a cursor is about to read, it has missed an event
\* for good (one never yielded to it and never to be) if and only if its
\* position is below oldest_event_count(), and the number of such events is
\* oldest_event_count() less its position. Stated of the cursors made by
\* get_cursor, to which no written event is out of reach from the start.
DropDetectionAsClaimed ==
    \A c \in Readers :
        CatchUp(c) =>
            /\ (Missed(c) # {}) <=> (Position(c) < oldest_event_count(self))
            /\ Position(c) < oldest_event_count(self) =>
                   Cardinality(Missed(c)) = oldest_event_count(self) - Position(c)

\* C26 (drop detection), amended: when a cursor is about to read, the events
\* at or above its position that it has missed for good are those from its
\* position up to oldest_event_count() - 1: there is one if and only if its
\* position is below oldest_event_count(), and their number is
\* oldest_event_count() less its position. These are all the events it has
\* missed if the cursor was made by get_cursor and every earlier read of it
\* found its position at or above oldest_event_count().
DropDetection ==
    \A c \in Readers :
        cursors[c].created =>
            /\ Lost(c) = Position(c)..(oldest_event_count(self) - 1)
            /\ (Lost(c) # {}) <=> (Position(c) < oldest_event_count(self))
            /\ Cardinality(Lost(c)) =
                   saturating_sub(oldest_event_count(self), Position(c))
            /\ Missed(c) \ Lost(c) =
                   {i \in 0..(Position(c) - 1) : i \notin Ids(delivered[c])}
            /\ (CatchUp(c) /\ delivered[c] = Range(0, Position(c))) =>
                   Missed(c) = Lost(c)

\* a cursor that was yielded the first event and is two events behind the
\* oldest retained one
DropDetectionWitness ==
    /\ cursors[1].created
    /\ Len(written) = 3
    /\ delivered[1] = Range(0, 1)
    /\ Position(1) = 1
    /\ oldest_event_count(self) = 3
    /\ Missed(1) = {1, 2}

\* C27 (two rotations between reads): with no clear or drain, the read of a
\* cursor that comes exactly two rotations after its previous read yields
\* every event written after the first of the two rotations, those written
\* between the two and those written after the second, and the events it
\* loses are exactly those written after its previous read and before the
\* first of the two rotations.
PartialRetention ==
    \A c \in Readers :
        (/\ cursors[c].created /\ ~cleared
         /\ reads[c].last # "never"
         /\ reads[c].updates_since_read = 2) =>
            LET kept == {i \in 0..(Len(written) - 1) : written[i + 1].age < 2}
                gone == {i \in Position(c)..(Len(written) - 1) : written[i + 1].age = 2}
            IN  /\ Ids(NextRead(c).result) = kept
                /\ NextRead(c).result = Range(Len(written) - Cardinality(kept), Len(written))
                /\ Lost(c) = gone
                /\ gone \cap Ids(delivered[c]) = {}
                /\ kept \cap Ids(delivered[c]) = {}

\* read; write; rotate; write; rotate; write: the first of the three events
\* is lost, the next read yields the other two
PartialRetentionWitness ==
    /\ cursors[1].created /\ ~cleared
    /\ reads[1].last = "write"
    /\ reads[1].updates_since_read = 2
    /\ Len(written) = 3
    /\ written[1].age = 2 /\ written[2].age = 1 /\ written[3].age = 0
    /\ Position(1) = 0
    /\ NextRead(1).result = Range(1, 3)

\* C28 (at most once): under every operation of the buffer and every read,
\* the ordinals a cursor has been yielded are strictly increasing, and those
\* its next read yields are above all of them; no event is yielded twice.
AtMostOnce ==
    \A c \in Readers :
        /\ \A j \in 1..(Len(delivered[c]) - 1) :
               delivered[c][j].event_id.id < delivered[c][j + 1].event_id.id
        /\ \A i \in Ids(delivered[c]) : \A n \in Ids(NextRead(c).result) : i < n
        /\ \A i \in Ids(delivered[c]) : i < Position(c)

\* a cursor yielded the first and the third event, the second having been
\* cleared unread in between
AtMostOnceWitness ==
    /\ cleared
    /\ Len(written) = 3
    /\ Ids(delivered[1]) = {0, 2}
    /\ Len(delivered[1]) = 2

\* C22 (two cursors, two speeds): with one cursor read after every rotation
\* and one read after every third, the fast one is yielded every event
\* once, none being rotated out before; each read of the slow one yields
\* exactly the events written since the second-most-recent rotation before
\* it, and the events written earlier and not yet yielded to it are never
\* yielded to it; every event yielded to the slow one has been yielded to
\* the fast one or is yielded by its next read.
TwoSpeeds ==
    /\ delivered[Fast] = Range(0, Position(Fast))
    /\ NextRead(Fast).result = Range(Position(Fast), Len(written))
    /\ Missed(Fast) = {}
    /\ \A i \in 1..Len(written) :
           (written[i].age = 2 \/ (written[i].age = 1 /\ reads[Fast].updates_since_read = 0))
               => i <= Len(delivered[Fast])
    /\ reads[Slow].updates_since_read = 3 =>
           LET recent == {i \in 0..(Len(written) - 1) : written[i + 1].age < 2}
               earlier == {i \in Position(Slow)..(Len(written) - 1) : written[i + 1].age = 2}
           IN  /\ Ids(NextRead(Slow).result) = recent
               /\ NextRead(Slow).result =
                      Range(Len(written) - Cardinality(recent), Len(written))
               /\ Lost(Slow) = earlier
    /\ reads[Slow].missed \cap Ids(delivered[Slow]) = {}
    /\ Missed(Slow) \cap Ids(delivered[Slow]) = {}
    /\ Ids(delivered[Slow]) \subseteq
           Ids(delivered[Fast]) \cup Ids(NextRead(Fast).result)
    /\ reads[Fast].last = "read" => Ids(delivered[Slow]) \subseteq Ids(delivered[Fast])

\* three events written before the second, before the third and after the
\* third rotation: the fast cursor was yielded all of them, the slow one
\* the last two
TwoSpeedsWitness ==
    /\ Len(written) = 3
    /\ written[1].age = 2 /\ written[2].age = 1 /\ written[3].age = 0
    /\ delivered[Fast] = Range(0, 3)
    /\ delivered[Slow] = Range(1, 3)
    /\ Missed(Slow) = {0}

\* the records a batch written at event_count adds
Added(events) == [k \in 1..Len(events) |-> EventInstance(event_count + (k - 1), events[k])]

\* C31 (after clear or drain): from every reachable buffer, after clear()
\* or drain() get_event finds nothing for any id, len() is 0 and a read from
\* any position up to event_count yields nothing, also after a rotation;
\* after the writes that follow, the read yields exactly the events written
\* after the clear, and get_event finds them.
AfterClear ==
    \A c \in {clear(self), drain(self).self} :
        /\ len(c) = 0
        /\ \A id \in 0..(event_count + 2) : get_event(c, id) = None
        /\ \A p \in 0..event_count :
               /\ EventCursor_read(EventCursor(p), c).result = <<>>
               /\ EventCursor_read(EventCursor(p), update(c)).result = <<>>
               /\ \A events \in Batches :
                      LET w == write_batch(c, events).self
                      IN  /\ EventCursor_read(EventCursor(p), w).result = Added(events)
                          /\ EventCursor_read(EventCursor(p), update(w)).result = Added(events)
        /\ \A e \in Payloads :
               get_event(write(c, e).self, event_count) =
                   Some([event |-> e, event_id |-> EventId(event_count)])

\* a cursor made before two events were written and cleared has been
\* yielded the event written after the clear and nothing else
AfterClearWitness ==
    /\ cleared
    /\ Len(written) = 3
    /\ CatchUp(1)
    /\ delivered[1] = Range(2, 3)
    /\ len(self) = 1
    /\ get_event(self, 1) = None

\* the position of a cursor is not above event_count
PositionBounded(c) == Position(c) <= event_count

\* no step lowers the position of a cursor
PositionKept(c) == cursors'[c].cursor.last_event_count >= Position(c)

\* C32 (cursor position): the position of a cursor got from get_cursor or
\* get_cursor_current of the buffer and read against it is never above
\* event_count, a read leaves it at event_count, and no step lowers it.
CursorBounds ==
    /\ [](\A c \in Readers :
              /\ PositionBounded(c)
              /\ NextRead(c).cursor.last_event_count >= Position(c)
              /\ NextRead(c).cursor.last_event_count = event_count)
    /\ [][\A c \in Readers : PositionKept(c)]_vars

\* a cursor made by get_cursor_current after the first event, read after the
\* second, with a third event written since
CursorBoundsWitness ==
    /\ cursors[1].created /\ reads[1].mode = "current"
    /\ reads[1].origin = 1
    /\ Position(1) = 2
    /\ event_count = 3

\* C33 (read length): from every reachable buffer a read from any position
\* yields a sequence no longer than len(); from a position not above
\* event_count its length is event_count less the larger of the position and
\* oldest_event_count(), and from a position above event_count it is empty.
ReadLength ==
    \A p \in 0..(event_count + 2) :
        LET n == Len(EventCursor_read(EventCursor(p), self).result)
        IN  /\ n <= len(self)
            /\ p <= event_count =>
                   n = event_count - Max(p, oldest_event_count(self))
            /\ p > event_count => n = 0
            /\ n \in 0..event_count

\* a read from position 1 of a buffer that has dropped event 0 and holds
\* events 1 and 2 is as long as len(); one from position 2 is shorter
ReadLengthWitness ==
    /\ oldest_event_count(self) = 1
    /\ len(self) = 2
    /\ cursors[1].created
    /\ Position(1) = 2
    /\ event_count = 3
    /\ Len(NextRead(1).result) = 1

\* what holds of the two generations of a buffer: the older ends where the
\* newer starts, the newer ends at event_count, and every record sits at the
\* index of its id
WellFormed(s) ==
    /\ s.events_a.start_event_count + Len(s.events_a.events) = s.events_b.start_event_count
    /\ s.events_b.start_event_count + Len(s.events_b.events) = s.event_count
    /\ \A i \in 1..Len(s.events_a.events) :
           s.events_a.events[i].event_id.id = s.events_a.start_event_count + (i - 1)
    /\ \A i \in 1..Len(s.events_b.events) :
           s.events_b.events[i].event_id.id = s.events_b.start_event_count + (i - 1)

\* C34 (extra rotations): with any number of update() and update_drain()
\* calls between the other operations the buffer stays well formed, also in
\* the middle of a run of rotations; after two rotations with no write
\* between or after them the buffer is empty, len() is 0 and
\* oldest_event_count() is event_count, and further rotations change
\* nothing.
ExtraRotations ==
    /\ WellFormed(self)
    /\ (\A i \in 1..Len(written) : written[i].age = 2) =>
           /\ len(self) = 0
           /\ oldest_event_count(self) = event_count
    /\ \A once \in {update(self), update_drain(self).self} :
           /\ WellFormed(once)
           /\ len(once) = Len(events_b.events)
           /\ \A twice \in {update(once), update_drain(once).self} :
                  /\ WellFormed(twice)
                  /\ len(twice) = 0
                  /\ oldest_event_count(twice) = event_count
                  /\ twice = Events(EventSequence(<<>>, event_count),
                                    EventSequence(<<>>, event_count), event_count)
                  /\ update(twice) = twice
                  /\ update_drain(twice).self = twice

\* three events, the last of them written two or more rotations ago, and no
\* clear or drain: the buffer is empty
ExtraRotationsWitness ==
    /\ ~cleared
    /\ Len(written) = 3
    /\ \A i \in 1..3 : written[i].age = 2
    /\ len(self) = 0
    /\ oldest_event_count(self) = 3

\* C35 (deprecated names): from every reachable buffer send, send_batch and
\* send_default give the id or ticket and the buffer that write, write_batch
\* and write_default give, and write_default() gives those of
\* write(E::default()): the id event_count and the record of the default
\* event behind the newer generation.
DeprecatedNames ==
    /\ \A e \in Payloads : send(self, e) = write(self, e)
    /\ \A events \in Batches : send_batch(self, events) = write_batch(self, events)
    /\ send_default(self) = write_default(self)
    /\ write_default(self) = write(self, E_default)
    /\ LET r == send_default(self)
       IN  /\ r.result = EventId(event_count)
           /\ r.self = Events(events_a,
                              EventSequence(Append(events_b.events,
                                                   EventInstance(event_count, E_default)),
                                            events_b.start_event_count),
                              event_count + 1)

\* two events written, by whichever names, behind a clear
DeprecatedNamesWitness ==
    /\ cleared
    /\ events_b.start_event_count = 1
    /\ Len(events_b.events) = 2
    /\ send_default(self).result = EventId(3)

\* C36 (index of get_event): for an id not below oldest_event_count(), the id
\* is not below the start_event_count of the generation sequence() selects,
\* so the subtraction that gives the index does not saturate; and when the
\* older generation is selected the index is within it.
IndexInRange ==
    \A id \in 0..(event_count + 2) :
        id >= oldest_event_count(self) =>
            LET seq == sequence(self, id)
                index == saturating_sub(id, seq.start_event_count)
            IN  /\ id >= seq.start_event_count
                /\ index = id - seq.start_event_count
                /\ id < events_b.start_event_count =>
                       /\ seq = events_a
                       /\ index < Len(seq.events)
                       /\ get(seq.events, index) = Some(Record(id))

\* ids in the older generation, in the newer, and past the end, above a
\* dropped event
IndexWitness ==
    /\ oldest_event_count(self) = 1
    /\ Len(events_a.events) = 1
    /\ Len(events_b.events) = 1
    /\ sequence(self, 1) = events_a
    /\ sequence(self, 2) = events_b
    /\ get_event(self, 3) = None

\* C37 (WriteBatchIds counts): for the ticket of every write_batch, from its
\* creation through every call of next(), also calls after the end,
\* last_count is not above event_count, len() is event_count less
\* last_count, and next() returns None exactly when len() is 0.
TicketCounts ==
    \A events \in Batches :
        LET ticket == write_batch(self, events).result
        IN  \A j \in 0..(Len(events) + 2) :
                LET it == WriteBatchIds_nth(ticket, j)
                IN  /\ it.last_count <= it.event_count
                    /\ WriteBatchIds_len(it) = it.event_count - it.last_count
                    /\ (WriteBatchIds_next(it).result = None)
                           <=> (WriteBatchIds_len(it) = 0)

\* the ticket of a batch of two written at event_count 1, run to its end and
\* asked once more
TicketCountsWitness ==
    /\ event_count = 1
    /\ LET ticket == write_batch(self, <<"b", "a">>).result
           ended == WriteBatchIds_nth(ticket, 3)
       IN  /\ ticket = [last_count |-> 1, event_count |-> 3]
           /\ ended = [last_count |-> 3, event_count |-> 3]
           /\ WriteBatchIds_next(ended).result = None

====
